---- MODULE Spec2Model ----
(***************************************************************************)
(* Transit Finder (src/metro_finder.py): the tool find_transit_route, the  *)
(* Station Locator find_nearest_transit_station and the Route Fetcher      *)
(* get_transit_route, one action per control step.  Every outbound HTTP    *)
(* GET is an issue step followed by a completion step whose reply is       *)
(* chosen by the provider.                                                 *)
(*                                                                         *)
(* Python values are records [t, s]: t is the type ("None" or "str") and   *)
(* s the string, a sequence of tokens.  Formatting is concatenation.       *)
(***************************************************************************)
EXTENDS Integers, Sequences, FiniteSets, TLC

VARIABLES
    n,                   \* invocations of the tool started so far
    destination_station, \* the tool's four arguments
    starting_station,
    city,
    current_location,
    pc,                  \* control position of the invocation
    calls,               \* outbound HTTP GETs issued by this invocation, in order
    inflight,            \* outbound HTTP GETs issued and not yet completed
    resp,                \* the provider's reply at each stage of this invocation
    loc_calls,           \* calls of find_nearest_transit_station by this invocation
    rt_calls,            \* argument pairs of the calls of get_transit_route
    nearest_station,     \* return value of find_nearest_transit_station
    route,               \* return value of get_transit_route
    exc,                 \* exception propagating to the caller of the current frame
    result,              \* return value of find_transit_route
    prev,                \* what the previous invocation did (for repeated calls)
    swap                 \* stage at which the provider answers a repeated call differently

vars == <<n, destination_station, starting_station, city, current_location, pc,
          calls, inflight, resp, loc_calls, rt_calls, nearest_station, route,
          exc, result, prev, swap>>

\* ------------------------------------------------------------------ bounds

MaxSteps == 2        \* longest step list the provider returns
MaxInvocations == 2  \* invocations of the tool in one behaviour

\* ------------------------------------------------------------ python values

None == [t |-> "None", s |-> <<>>]
Str(x) == [t |-> "str", s |-> x]
\* Python truthiness of an optional string: None and "" are falsy.
Truthy(v) == v.t = "str" /\ v.s # <<>>

NoExc == [raised |-> FALSE, msg |-> <<>>]
Exc(m) == [raised |-> TRUE, msg |-> m]

NoStation ==
    [t |-> "None", name |-> <<>>, walking_time |-> <<>>, distance |-> <<>>,
     walking_directions |-> <<>>]

\* ---------------------------------------------------------------- provider

Stages == {"geocode", "places", "places_bus", "walking", "transit"}
LocatorStages == {"geocode", "places", "places_bus", "walking"}

\* OK: HTTP 200, status OK, a non-empty list.  HTTPFAIL: a status code other
\* than 200.  EMPTY: HTTP 200 with a non-OK status or an empty list.
\* TIMEOUT: the GET raises.  MALFORMED: HTTP 200 with a payload that lacks
\* the keys read, so that reading it raises.
ReplyKinds == {"OK", "HTTPFAIL", "EMPTY", "TIMEOUT", "MALFORMED"}
ExcKinds == {"TIMEOUT", "MALFORMED"}

TravelModes == {"WALKING", "TRANSIT", "DRIVING"}
StepLists == UNION {[1..k -> TravelModes] : k \in 0..MaxSteps}
StationNames == {<<"Central">>, <<"Depot">>}

Reply(kind, name, steps) == [kind |-> kind, name |-> name, steps |-> steps]
Unset == Reply("unset", <<>>, <<>>)

Replies(st) ==
    {Reply(k, <<>>, <<>>) : k \in ReplyKinds \ {"OK"}}
    \cup (IF st \in {"places", "places_bus"}
            THEN {Reply("OK", nm, <<>>) : nm \in StationNames}
          ELSE IF st = "transit"
            THEN {Reply("OK", <<>>, sl) : sl \in StepLists}
          ELSE {Reply("OK", <<>>, <<>>)})

SwapKind(r) ==
    [r EXCEPT !.kind = IF @ = "HTTPFAIL" THEN "EMPTY" ELSE "HTTPFAIL"]

\* The provider's possible replies at stage st.  A repeated invocation is
\* answered as the previous one was wherever the previous one got an
\* answer, except that at stage `swap` a transport failure is exchanged
\* with a lookup-empty reply.
ProviderReplies(st) ==
    IF prev.valid /\ prev.resp[st].kind # "unset"
      THEN {IF swap = st THEN SwapKind(prev.resp[st]) ELSE prev.resp[st]}
      ELSE Replies(st)

\* str(e) of the exception a reply leads to.
Msg(r) == IF r.kind = "TIMEOUT" THEN <<"ReadTimeout">> ELSE <<"'status'">>
TypeErrorMsg == <<"TypeError">>

\* -------------------------------------------------------------------- text

NL == <<"\n">>

Digit == <<"0", "1", "2", "3", "4", "5", "6", "7", "8", "9">>

RECURSIVE NumStr(_)
NumStr(k) ==
    IF k < 10 THEN <<Digit[k + 1]>>
    ELSE NumStr(k \div 10) \o <<Digit[(k % 10) + 1]>>

DestinationGuidanceText ==
    <<"Transit Finder">> \o NL \o NL
    \o <<"I need to know where you want to go. Please provide:">> \o NL \o NL
    \o <<"Destination: Name of the location or station you want to reach">> \o NL
    \o <<"City: The city where the location is situated">> \o NL \o NL
    \o <<"Optional:">> \o NL
    \o <<"Starting station or location">> \o NL
    \o <<"Your current location">>

CityGuidanceText(start) ==
    <<"Transit Finder">> \o NL \o NL
    \o <<"To find accurate transit information about ">>
    \o <<IF Truthy(start) THEN "both locations" ELSE "the destination">>
    \o <<", I need to know which city ">>
    \o <<IF Truthy(start) THEN "they are" ELSE "it is">>
    \o <<" in.">> \o NL \o NL
    \o <<"Please provide the city name where the locations are situated.">>

NoStationsText ==
    <<"Sorry, I couldn't find any transit stations near your location. ",
      "Please try a different location or provide a specific starting station.">>

StartGuidanceText(dest, c) ==
    <<"Transit Route Planner">> \o NL \o NL
    \o <<"I need to know where you're starting from to get to ">> \o dest
    \o <<" in ">> \o c \o <<".">> \o NL \o NL
    \o <<"Please provide either:">> \o NL
    \o <<"Your current location (address or landmark)">> \o NL
    \o <<"The station or location you're starting from">> \o NL \o NL
    \o <<"I'll find the best transit route for you!">>

ToolErrorText(m) == <<"Error finding metro route: ">> \o m

WalkBlockText(loc, st) ==
    <<"First: Walk to the nearest transit station">> \o NL \o NL
    \o <<"From: ">> \o loc \o NL
    \o <<"To: ">> \o st.name \o <<" Station">> \o NL
    \o <<"Walking time: ">> \o st.walking_time \o NL
    \o <<"Distance: ">> \o st.distance \o NL
    \o <<"Walking directions: ">> \o st.walking_directions \o NL \o NL
    \o <<"Then: Take public transit">> \o NL \o NL

RouteHttpFailText(a, b) ==
    <<"Sorry, I couldn't find a transit route between ">> \o a
    \o <<" and ">> \o b \o <<".">>

RouteNotFoundText(a, b) ==
    <<"No public transit routes found between ">> \o a \o <<" and ">> \o b
    \o <<". The locations may be too far apart or not connected by public transportation.">>

RouteErrorText(m) == <<"Error getting metro route: ">> \o m

\* ------------------------------------------------------- itinerary formatter

StepNumInit == 1

\* The counter advanced twice.
StepNumNext_twice(k) == k + 2

\* step_num += 1
StepNumNext(k) == k + 1

WalkLine(num) ==
    NumStr(num) \o <<". ", "Walk: ", "Head north", " (", "5 mins", ")">> \o NL

TransitLines(num) ==
    NumStr(num) \o <<". ", "Line 1", ": Board the ", "transit", " at ", "Stop A">> \o NL
    \o <<"   Travel ", "0", " stops">> \o NL
    \o <<"   Get off at ", "Stop B">> \o NL

\* The loop over the provider's steps from index i on, step_num being the
\* counter's value there: a step that is neither WALKING nor TRANSIT emits
\* nothing and leaves the counter alone.
RECURSIVE FormatSteps(_, _, _)
FormatSteps(steps, i, step_num) ==
    IF i > Len(steps) THEN <<>>
    ELSE IF steps[i] = "WALKING"
      THEN WalkLine(step_num) \o FormatSteps(steps, i + 1, StepNumNext(step_num))
    ELSE IF steps[i] = "TRANSIT"
      THEN TransitLines(step_num) \o FormatSteps(steps, i + 1, StepNumNext(step_num))
    ELSE FormatSteps(steps, i + 1, step_num)

\* str.replace(' ', '+') on a string of tokens.
PlusToken(tok) ==
    CASE tok = " " -> "+"
      [] tok = ", " -> ",+"
      [] tok = " and " -> "+and+"
      [] OTHER -> tok

ReplaceSpaces(x) == [i \in 1..Len(x) |-> PlusToken(x[i])]

MapsLink(a, b) ==
    <<"https://maps.google.com/maps/dir/">> \o ReplaceSpaces(a) \o <<"/">>
    \o ReplaceSpaces(b) \o <<"/data=!4m2!4m1!3e3">>

ItineraryText(a, b, steps) ==
    <<"Transit Route: ">> \o a \o <<" -> ">> \o b \o NL \o NL
    \o <<"Total journey time: ", "40 mins">> \o NL
    \o <<"Distance: ", "12 km">> \o NL \o NL
    \o <<"Step-by-step directions:">> \o NL
    \o FormatSteps(steps, 1, StepNumInit)
    \o NL \o <<"View on Google Maps: ">> \o MapsLink(a, b) \o NL

\* ------------------------------------------------------------ outbound GETs

Call(endpoint, type, p1, p2) ==
    [endpoint |-> endpoint, type |-> type, p1 |-> p1, p2 |-> p2]

LatLng == <<"12.97", ",", "77.59">>
StationLatLng == <<"12.98", ",", "77.60">>

GeocodeCall(location) == Call("geocode", "-", location, <<>>)
PlacesCall(type) == Call("nearbysearch", type, LatLng, <<>>)
WalkingCall == Call("directions", "walking", LatLng, StationLatLng)
TransitCall(a, b) == Call("directions", "transit", a, b)

WalkingLink ==
    <<"https://maps.google.com/maps/dir/">> \o LatLng \o <<"/">> \o StationLatLng
    \o <<"/data=!4m2!4m1!3e2">>

Station(name) ==
    [t |-> "dict", name |-> name, walking_time |-> <<"7 mins">>,
     distance |-> <<"0.5 km">>, walking_directions |-> WalkingLink]

\* ------------------------------------------------------- exception handlers

\* What a function returns to its caller: a value, or an exception.
Ret(v) == [exc |-> NoExc, val |-> v]
Raise(m, v) == [exc |-> Exc(m), val |-> v]

\* The locator's handler letting the exception through.
LocatorExcept_reraise(m) == Raise(m, NoStation)

\* except Exception in find_nearest_transit_station
LocatorExcept(m) == Ret(NoStation)

\* The fetcher's handler swallowing the exception, as the locator's does.
GetTransitRouteExcept_none(m) == Ret(None)

\* except Exception in get_transit_route
GetTransitRouteExcept(m) == Ret(Str(RouteErrorText(m)))

\* except Exception in find_transit_route
ToolExcept(m) == Ret(Str(ToolErrorText(m)))

\* ------------------------------------------------------------------- state

NoPrev ==
    [valid |-> FALSE, resp |-> [st \in Stages |-> Unset], calls |-> <<>>,
     result |-> None]

DestinationValues == {None, Str(<<>>), Str(<<"Airport">>)}
StartingValues == {None, Str(<<>>), Str(<<"Museum">>)}
CityValues == {None, Str(<<>>), Str(<<"Pune">>)}
LocationValues == {None, Str(<<>>), Str(<<"12 Hill Road">>)}

Init ==
    /\ n = 0
    /\ destination_station = None
    /\ starting_station = None
    /\ city = None
    /\ current_location = None
    /\ pc = "idle"
    /\ calls = <<>>
    /\ inflight = 0
    /\ resp = [st \in Stages |-> Unset]
    /\ loc_calls = 0
    /\ rt_calls = <<>>
    /\ nearest_station = NoStation
    /\ route = None
    /\ exc = NoExc
    /\ result = None
    /\ prev = NoPrev
    /\ swap = "none"

inputs == <<destination_station, starting_station, city, current_location>>
history == <<prev, swap, n>>

\* A fresh frame of find_transit_route.
Enter ==
    /\ pc' = "entry"
    /\ calls' = <<>>
    /\ inflight' = 0
    /\ resp' = [st \in Stages |-> Unset]
    /\ loc_calls' = 0
    /\ rt_calls' = <<>>
    /\ nearest_station' = NoStation
    /\ route' = None
    /\ exc' = NoExc
    /\ result' = None

\* The host transport invokes the tool.
Invoke(d, s, c, l) ==
    /\ pc = "idle"
    /\ n < MaxInvocations
    /\ n' = n + 1
    /\ destination_station' = d
    /\ starting_station' = s
    /\ city' = c
    /\ current_location' = l
    /\ Enter
    /\ UNCHANGED <<prev, swap>>

\* The host transport invokes the tool again with the same arguments; the
\* provider answers as before, or exchanges a transport failure with a
\* lookup-empty reply at one stage.
Reinvoke(sw) ==
    /\ pc = "done"
    /\ n < MaxInvocations
    /\ sw = "none" \/ (sw \in Stages /\ resp[sw].kind \in {"HTTPFAIL", "EMPTY"})
    /\ n' = n + 1
    /\ prev' = [valid |-> TRUE, resp |-> resp, calls |-> calls, result |-> result]
    /\ swap' = sw
    /\ Enter
    /\ UNCHANGED inputs

\* find_transit_route returns r.val, or r.exc leaves it.
Finish(r) ==
    /\ pc' = "done"
    /\ result' = r.val
    /\ exc' = r.exc

\* --------------------------------------------------------- find_transit_route

\* "destination_station is None" instead of "not destination_station".
DestinationMissing_noneOnly == destination_station.t = "None"

DestinationMissing == ~Truthy(destination_station)
CityMissing == ~Truthy(city)
LocateFirst == Truthy(current_location) /\ ~Truthy(starting_station)
\* A test that no return value of the locator satisfies.
StationMissing_never(st) == st.t = "False"

StationMissing(st) == st.t = "None"

\* The city put in front of the name.
WithCity_cityFirst(name, c) == IF Truthy(c) THEN c.s \o <<", ">> \o name ELSE name

\* The city left out.
WithCity_bare(name, c) == name

\* f"{name}, {city}" if city else name
WithCity(name, c) == IF Truthy(c) THEN name \o <<", ">> \o c.s ELSE name

ReturnDestinationGuidance ==
    /\ pc = "entry"
    /\ DestinationMissing
    /\ Finish(Ret(Str(DestinationGuidanceText)))
    /\ UNCHANGED <<inputs, history, calls, inflight, resp, loc_calls, rt_calls,
                   nearest_station, route>>

ReturnCityGuidance ==
    /\ pc = "entry"
    /\ ~DestinationMissing
    /\ CityMissing
    /\ Finish(Ret(Str(CityGuidanceText(starting_station))))
    /\ UNCHANGED <<inputs, history, calls, inflight, resp, loc_calls, rt_calls,
                   nearest_station, route>>

\* Case 1: await find_nearest_transit_station(current_location)
CallLocator ==
    /\ pc = "entry"
    /\ ~DestinationMissing
    /\ ~CityMissing
    /\ LocateFirst
    /\ loc_calls' = loc_calls + 1
    /\ pc' = "loc_geocode"
    /\ UNCHANGED <<inputs, history, calls, inflight, resp, rt_calls,
                   nearest_station, route, exc, result>>

\* Case 1, after the locator returned.
AfterLocator ==
    /\ pc = "loc_done"
    /\ IF exc.raised
         THEN Finish(ToolExcept(exc.msg)) /\ UNCHANGED rt_calls
       ELSE IF StationMissing(nearest_station)
         THEN Finish(Ret(Str(NoStationsText))) /\ UNCHANGED rt_calls
       ELSE IF nearest_station.t # "dict"
         \* nearest_station["name"] on None
         THEN Finish(ToolExcept(TypeErrorMsg)) /\ UNCHANGED rt_calls
       ELSE /\ rt_calls' = Append(rt_calls,
                   [a |-> nearest_station.name,
                    b |-> WithCity(destination_station.s, city)])
            /\ pc' = "rt_call"
            /\ UNCHANGED <<exc, result>>
    /\ UNCHANGED <<inputs, history, calls, inflight, resp, loc_calls,
                   nearest_station, route>>

\* Case 2: await get_transit_route(starting_with_city, destination_with_city)
CallRouteDirect ==
    /\ pc = "entry"
    /\ ~DestinationMissing
    /\ ~CityMissing
    /\ ~LocateFirst
    /\ Truthy(starting_station)
    /\ rt_calls' = Append(rt_calls,
           [a |-> WithCity(starting_station.s, city),
            b |-> WithCity(destination_station.s, city)])
    /\ pc' = "rt_call"
    /\ UNCHANGED <<inputs, history, calls, inflight, resp, loc_calls,
                   nearest_station, route, exc, result>>

\* Case 3
ReturnStartGuidance ==
    /\ pc = "entry"
    /\ ~DestinationMissing
    /\ ~CityMissing
    /\ ~LocateFirst
    /\ ~Truthy(starting_station)
    /\ Finish(Ret(Str(StartGuidanceText(destination_station.s, city.s))))
    /\ UNCHANGED <<inputs, history, calls, inflight, resp, loc_calls, rt_calls,
                   nearest_station, route>>

\* Case 1, after the fetcher returned: the walking block, then the route.
ReturnWalkThenTransit ==
    /\ pc = "rt_done"
    /\ loc_calls > 0
    /\ IF exc.raised
         THEN Finish(ToolExcept(exc.msg))
       ELSE IF route.t # "str"
         \* result += route
         THEN Finish(ToolExcept(TypeErrorMsg))
       ELSE Finish(Ret(Str(WalkBlockText(current_location.s, nearest_station)
                           \o route.s)))
    /\ UNCHANGED <<inputs, history, calls, inflight, resp, loc_calls, rt_calls,
                   nearest_station, route>>

\* Case 2, after the fetcher returned: return route
ReturnDirectRoute ==
    /\ pc = "rt_done"
    /\ loc_calls = 0
    /\ IF exc.raised
         THEN Finish(ToolExcept(exc.msg))
       ELSE Finish(Ret(route))
    /\ UNCHANGED <<inputs, history, calls, inflight, resp, loc_calls, rt_calls,
                   nearest_station, route>>

\* ----------------------------------------------- find_nearest_transit_station

\* An empty geocode result not checked for.
GeocodeNext_ignoreEmpty(r) ==
    CASE r.kind \in ExcKinds -> "except"
      [] r.kind = "HTTPFAIL" -> "none"
      [] OTHER -> "loc_places"

\* The fallback search also made after a transport failure.
PlacesNext_retryOnHttpFail(r) ==
    CASE r.kind \in ExcKinds -> "except"
      [] r.kind \in {"HTTPFAIL", "EMPTY"} -> "loc_bus"
      [] OTHER -> "loc_walk"

\* The fallback search repeated while it finds nothing.
PlacesBusNext_retry(r) ==
    CASE r.kind \in ExcKinds -> "except"
      [] r.kind = "HTTPFAIL" -> "none"
      [] r.kind = "EMPTY" -> "loc_bus"
      [] OTHER -> "loc_walk"

\* Where the locator goes on the reply to each of its GETs: "except" is its
\* handler, "none" is return None, "station" is the return of the station.
GeocodeNext(r) ==
    CASE r.kind \in ExcKinds -> "except"
      [] r.kind = "HTTPFAIL" -> "none"
      [] r.kind = "EMPTY" -> "none"
      [] OTHER -> "loc_places"

PlacesNext(r) ==
    CASE r.kind \in ExcKinds -> "except"
      [] r.kind = "HTTPFAIL" -> "none"
      [] r.kind = "EMPTY" -> "loc_bus"
      [] OTHER -> "loc_walk"

PlacesBusNext(r) ==
    CASE r.kind \in ExcKinds -> "except"
      [] r.kind = "HTTPFAIL" -> "none"
      [] r.kind = "EMPTY" -> "none"
      [] OTHER -> "loc_walk"

WalkingNext(r) ==
    CASE r.kind \in ExcKinds -> "except"
      [] r.kind = "HTTPFAIL" -> "none"
      [] r.kind = "EMPTY" -> "none"
      [] OTHER -> "station"

\* places_data['results'][0]['name'] of the search that succeeded
StationName(rs) ==
    IF rs["places_bus"].kind = "OK" THEN rs["places_bus"].name
    ELSE rs["places"].name

\* await client.get(...): the GET goes out and the coroutine waits for it.
Issue(call, waiting) ==
    /\ calls' = Append(calls, call)
    /\ inflight' = inflight + 1
    /\ pc' = waiting
    /\ UNCHANGED <<inputs, history, resp, loc_calls, rt_calls, nearest_station,
                   route, exc, result>>

\* The GET of stage st completes with reply r.
Receive(st, r) ==
    /\ inflight' = inflight - 1
    /\ resp' = [resp EXCEPT ![st] = r]

LocatorReturn(r) ==
    /\ pc' = "loc_done"
    /\ nearest_station' = r.val
    /\ exc' = r.exc

LocatorContinue(next, rs, r) ==
    /\ IF next = "except" THEN LocatorReturn(LocatorExcept(Msg(r)))
       ELSE IF next = "none" THEN LocatorReturn(Ret(NoStation))
       ELSE IF next = "station" THEN LocatorReturn(Ret(Station(StationName(rs))))
       ELSE pc' = next /\ UNCHANGED <<nearest_station, exc>>
    /\ UNCHANGED <<inputs, history, calls, loc_calls, rt_calls, route, result>>

IssueGeocode ==
    /\ pc = "loc_geocode"
    /\ Issue(GeocodeCall(current_location.s), "loc_geocode_wait")

CompleteGeocode ==
    /\ pc = "loc_geocode_wait"
    /\ \E r \in ProviderReplies("geocode") :
         Receive("geocode", r) /\ LocatorContinue(GeocodeNext(r), resp', r)

IssuePlaces ==
    /\ pc = "loc_places"
    /\ Issue(PlacesCall("transit_station"), "loc_places_wait")

CompletePlaces ==
    /\ pc = "loc_places_wait"
    /\ \E r \in ProviderReplies("places") :
         Receive("places", r) /\ LocatorContinue(PlacesNext(r), resp', r)

IssuePlacesBus ==
    /\ pc = "loc_bus"
    /\ Issue(PlacesCall("bus_station"), "loc_bus_wait")

CompletePlacesBus ==
    /\ pc = "loc_bus_wait"
    /\ \E r \in ProviderReplies("places_bus") :
         Receive("places_bus", r) /\ LocatorContinue(PlacesBusNext(r), resp', r)

IssueWalking ==
    /\ pc = "loc_walk"
    /\ Issue(WalkingCall, "loc_walk_wait")

CompleteWalking ==
    /\ pc = "loc_walk_wait"
    /\ \E r \in ProviderReplies("walking") :
         Receive("walking", r) /\ LocatorContinue(WalkingNext(r), resp', r)

\* ----------------------------------------------------------- get_transit_route

GetTransitRouteResult(r, a, b) ==
    CASE r.kind \in ExcKinds -> GetTransitRouteExcept(Msg(r))
      [] r.kind = "HTTPFAIL" -> Ret(Str(RouteHttpFailText(a, b)))
      [] r.kind = "EMPTY" -> Ret(Str(RouteNotFoundText(a, b)))
      [] OTHER -> Ret(Str(ItineraryText(a, b, r.steps)))

RouteArgs == rt_calls[Len(rt_calls)]

IssueTransit ==
    /\ pc = "rt_call"
    /\ Issue(TransitCall(RouteArgs.a, RouteArgs.b), "rt_wait")

CompleteTransit ==
    /\ pc = "rt_wait"
    /\ \E r \in ProviderReplies("transit") :
         /\ Receive("transit", r)
         /\ route' = GetTransitRouteResult(r, RouteArgs.a, RouteArgs.b).val
         /\ exc' = GetTransitRouteResult(r, RouteArgs.a, RouteArgs.b).exc
    /\ pc' = "rt_done"
    /\ UNCHANGED <<inputs, history, calls, loc_calls, rt_calls, nearest_station,
                   result>>

\* --------------------------------------------------------------- specification

Next ==
    \/ \E d \in DestinationValues, s \in StartingValues, c \in CityValues,
          l \in LocationValues : Invoke(d, s, c, l)
    \/ \E sw \in Stages \cup {"none"} : Reinvoke(sw)
    \/ ReturnDestinationGuidance
    \/ ReturnCityGuidance
    \/ CallLocator
    \/ IssueGeocode
    \/ CompleteGeocode
    \/ IssuePlaces
    \/ CompletePlaces
    \/ IssuePlacesBus
    \/ CompletePlacesBus
    \/ IssueWalking
    \/ CompleteWalking
    \/ AfterLocator
    \/ CallRouteDirect
    \/ ReturnStartGuidance
    \/ IssueTransit
    \/ CompleteTransit
    \/ ReturnWalkThenTransit
    \/ ReturnDirectRoute

Spec == Init /\ [][Next]_vars

\* Every step is a step of one coroutine that the event loop runs until it
\* returns, and every GET carries timeout=30, so no step waits for ever.
FairSpec == Spec /\ WF_vars(Next)

TypeOK ==
    /\ n \in 0..MaxInvocations
    /\ inflight \in 0..1
    /\ result.t \in {"None", "str"}

\* ------------------------------------------------------------------ properties

Returned == pc = "done"
Failed(r) == r.kind \in {"HTTPFAIL", "EMPTY", "TIMEOUT", "MALFORMED"}

\* Number of GETs issued that equal c / that go to an endpoint with a type.
Count(c) == Cardinality({i \in 1..Len(calls) : calls[i] = c})
CountType(type) == Cardinality({i \in 1..Len(calls) : calls[i].type = type})
NetworkUntouched == calls = <<>> /\ loc_calls = 0 /\ rt_calls = <<>>

EndsWith(x, suffix) ==
    /\ Len(x) >= Len(suffix)
    /\ SubSeq(x, Len(x) - Len(suffix) + 1, Len(x)) = suffix

CallTypes == [i \in 1..Len(calls) |->
                 IF calls[i].endpoint = "geocode" THEN "geocode" ELSE calls[i].type]
IsPrefix(x, y) == Len(x) <= Len(y) /\ SubSeq(y, 1, Len(x)) = x
AllowedChains ==
    {<<"geocode", "transit_station", "walking", "transit">>,
     <<"geocode", "transit_station", "bus_station", "walking", "transit">>,
     <<"transit">>}

\* The lines of a text, and the numbered ones among them: a line is
\* numbered when it starts with digits followed by ". ".
RECURSIVE SplitLines(_)
SplitLines(x) ==
    IF x = <<>> THEN <<>>
    ELSE LET ends == {i \in 1..Len(x) : x[i] = "\n"}
             i == IF ends = {} THEN Len(x) + 1
                  ELSE CHOOSE e \in ends : \A f \in ends : e <= f
         IN <<SubSeq(x, 1, i - 1)>> \o SplitLines(SubSeq(x, i + 1, Len(x)))

DigitSet == {Digit[i] : i \in 1..Len(Digit)}
DotAt(line) == CHOOSE i \in 1..Len(line) : line[i] = ". " /\ \A j \in 1..(i - 1) : line[j] # ". "
IsNumbered(line) ==
    /\ \E i \in 2..Len(line) : line[i] = ". "
    /\ \A j \in 1..(DotAt(line) - 1) : line[j] \in DigitSet
NumberedLines(text) == SelectSeq(SplitLines(text), IsNumbered)
LineNumber(line) == SubSeq(line, 1, DotAt(line) - 1)
LineMode(line) ==
    IF line[DotAt(line) + 1] = "Walk: " THEN "WALKING" ELSE "TRANSIT"
IsEmitted(mode) == mode \in {"WALKING", "TRANSIT"}

\* The k-th numbered line of text is numbered k and renders the k-th of steps.
NumberedAs(text, steps) ==
    LET nl == NumberedLines(text)
    IN /\ Len(nl) = Len(steps)
       /\ \A k \in 1..Len(steps) :
            /\ LineNumber(nl[k]) = NumStr(k)
            /\ LineMode(nl[k]) = steps[k]

\* C1: every invocation of find_transit_route ends, whatever its arguments
\* and whatever each provider call does, and when it has ended it has
\* returned a text and no exception has left it.
C1_AlwaysReturnsText ==
    /\ [](Returned => (~exc.raised /\ result.t = "str"))
    /\ [](pc # "idle" => <>Returned)

C1_Witness ==
    /\ Returned
    /\ resp["transit"].kind \in ExcKinds
    /\ loc_calls = 0
    /\ result.t = "str"

\* C2: with destination, city and starting station all non-empty, the
\* locator is never called, the fetcher is called exactly once, with
\* "<starting_station>, <city>" and "<destination_station>, <city>", and
\* the tool returns the fetcher's return value unchanged.
C2_DirectRouteVerbatim ==
    (Truthy(destination_station) /\ Truthy(city) /\ Truthy(starting_station))
    => LET a == starting_station.s \o <<", ">> \o city.s
           b == destination_station.s \o <<", ">> \o city.s
       IN /\ loc_calls = 0
          /\ CountType("transit") = Len(calls)
          /\ Len(rt_calls) <= 1
          /\ Returned => /\ rt_calls = <<[a |-> a, b |-> b]>>
                         /\ calls = <<TransitCall(a, b)>>
                         /\ resp["transit"].kind # "unset"
                         /\ result = route

C2_Witness ==
    /\ Returned
    /\ Truthy(destination_station) /\ Truthy(city) /\ Truthy(starting_station)
    /\ Truthy(current_location)
    /\ resp["transit"].kind = "OK"
    /\ result = route

\* C3: with an empty or absent destination the tool returns the
\* destination guidance text whatever the other arguments are, neither the
\* locator nor the fetcher is called and no GET is issued, and a repeated
\* call returns the same text.
C3_NoDestinationGuidance ==
    (~Truthy(destination_station) /\ pc # "idle")
    => /\ NetworkUntouched
       /\ Returned => /\ result = Str(DestinationGuidanceText)
                      /\ prev.valid => result = prev.result

C3_Witness ==
    /\ Returned
    /\ destination_station = Str(<<>>)
    /\ Truthy(city) /\ Truthy(starting_station) /\ Truthy(current_location)
    /\ prev.valid
    /\ result = Str(DestinationGuidanceText)

\* C4: with destination and city present, a current location and no
\* starting station, when the locator yields no station the tool returns
\* exactly the "no stations found" text and the fetcher is not called: no
\* transit-mode directions GET is issued.
C4_NoStationNoRoute ==
    (/\ Returned
     /\ Truthy(destination_station) /\ Truthy(city)
     /\ Truthy(current_location) /\ ~Truthy(starting_station)
     /\ nearest_station.t = "None")
    => /\ result = Str(NoStationsText)
       /\ rt_calls = <<>>
       /\ CountType("transit") = 0
       /\ loc_calls = 1

C4_Witness ==
    /\ Returned
    /\ Truthy(current_location) /\ ~Truthy(starting_station)
    /\ resp["places_bus"].kind = "EMPTY"
    /\ nearest_station.t = "None"
    /\ result = Str(NoStationsText)

\* C5 as claimed: an invocation issues at most four GETs, one at a time.
C5_AtMostFourGets ==
    /\ Len(calls) <= 4
    /\ inflight <= 1

\* C5: an invocation issues at most five GETs (geocode, places, the places
\* retry, walking directions, transit directions, in this order, or the
\* transit directions alone), and none before the previous one completed.
C5_AtMostFiveGetsInSequence ==
    /\ Len(calls) <= 5
    /\ inflight <= 1
    /\ inflight = 1 => pc \in {"loc_geocode_wait", "loc_places_wait",
                               "loc_bus_wait", "loc_walk_wait", "rt_wait"}
    /\ \E chain \in AllowedChains : IsPrefix(CallTypes, chain)

C5_Witness ==
    /\ Returned
    /\ Len(calls) = 5
    /\ resp["transit"].kind = "OK"

\* C6 as claimed: exchanging a transport failure with a lookup-empty reply
\* at any one stage changes neither the GETs issued nor the text returned.
C6_FailureLikeEmptyEverywhere ==
    (Returned /\ prev.valid /\ swap # "none")
    => (calls = prev.calls /\ result = prev.result)

\* C6: exchanging a transport failure with a lookup-empty reply at the
\* geocode, the bus_station search or the walking directions changes
\* neither the GETs issued nor the text returned, which is the "no
\* stations found" text.  (At the transit_station search only the
\* lookup-empty reply leads to the bus_station search, and the fetcher
\* has one text for each.)
C6_FailureLikeEmptyInLocator ==
    (Returned /\ prev.valid /\ swap \in {"geocode", "places_bus", "walking"})
    => /\ calls = prev.calls
       /\ result = prev.result
       /\ result = Str(NoStationsText)

C6_Witness ==
    /\ Returned /\ prev.valid
    /\ swap = "walking"
    /\ prev.resp["walking"].kind = "HTTPFAIL"
    /\ resp["walking"].kind = "EMPTY"
    /\ result = prev.result

\* C7 as claimed: an exception raised by a provider call or by reading its
\* payload, in the locator or the fetcher, ends in a generic error text: a
\* failure indicator followed by the exception's message.  (Stated in its
\* weakest reading, which accepts the error text of either handler.)
C7_ExceptionsReachToolHandler ==
    \A st \in Stages :
        (Returned /\ resp[st].kind \in ExcKinds)
        => \/ EndsWith(result.s, ToolErrorText(Msg(resp[st])))
           \/ EndsWith(result.s, RouteErrorText(Msg(resp[st])))

\* C7: an exception in the locator is caught by the locator, which yields
\* no station, and the tool returns the "no stations found" text; an
\* exception in the fetcher is caught by the fetcher, whose return value is
\* its own error text with the exception's message, and the tool returns
\* it as it returns any route.
C7_ExceptionsCaughtWhereRaised ==
    /\ \A st \in LocatorStages :
        (Returned /\ resp[st].kind \in ExcKinds)
        => (nearest_station.t = "None" /\ result = Str(NoStationsText))
    /\ (Returned /\ resp["transit"].kind \in ExcKinds)
        => /\ route = Str(RouteErrorText(Msg(resp["transit"])))
           /\ result = IF loc_calls > 0
                         THEN Str(WalkBlockText(current_location.s, nearest_station)
                                  \o route.s)
                         ELSE route
    /\ ~exc.raised

C7_Witness ==
    /\ Returned
    /\ resp["places"].kind = "MALFORMED"
    /\ result = Str(NoStationsText)

C9_NumberedPerProviderStep ==
    (pc \in {"rt_done", "done"} /\ resp["transit"].kind = "OK")
    => NumberedAs(route.s, resp["transit"].steps)

\* C9: in the text of a successful itinerary the numbers start at 1 and
\* grow by 1 per WALKING or TRANSIT step, in the provider's order: the
\* k-th such step is numbered k.  A step of any other travel mode is left
\* out and takes no number.
C9_NumberedPerEmittedStep ==
    (pc \in {"rt_done", "done"} /\ resp["transit"].kind = "OK")
    => NumberedAs(route.s, SelectSeq(resp["transit"].steps, IsEmitted))

C9_Witness ==
    /\ pc = "rt_done"
    /\ resp["transit"].kind = "OK"
    /\ resp["transit"].steps = <<"WALKING", "TRANSIT">>
    /\ Len(NumberedLines(route.s)) = 2

\* C10: the bus_station search is issued at most once, and exactly when
\* the transit_station search came back with a non-OK status or an empty
\* list; the geocode, the walking directions and the transit directions
\* are issued at most once each; after a failed bus_station search no
\* further GET is issued and the locator returns nothing.
C10_SingleCategoryFallback ==
    /\ Count(PlacesCall("bus_station")) <= 1
    /\ Count(PlacesCall("transit_station")) <= 1
    /\ Count(GeocodeCall(current_location.s)) = Cardinality({i \in 1..Len(calls) : calls[i].endpoint = "geocode"})
    /\ Count(GeocodeCall(current_location.s)) <= 1
    /\ CountType("walking") <= 1
    /\ CountType("transit") <= 1
    /\ Count(PlacesCall("bus_station")) = 1 => resp["places"].kind = "EMPTY"
    /\ (resp["places"].kind = "EMPTY" /\ pc # "loc_bus")
        => Count(PlacesCall("bus_station")) = 1
    /\ Failed(resp["places_bus"])
        => /\ calls[Len(calls)] = PlacesCall("bus_station")
           /\ nearest_station.t = "None"
           /\ pc \in {"loc_done", "done"}
           /\ rt_calls = <<>>

C10_Witness ==
    /\ Returned
    /\ resp["places"].kind = "EMPTY"
    /\ resp["places_bus"].kind = "HTTPFAIL"
    /\ Count(PlacesCall("bus_station")) = 1

====
